---- MODULE Spec2Model ----
(***************************************************************************)
(* Model of main/sdm120-app.c: an ESP32 application that polls ten         *)
(* parameters of an SDM120 energy meter over Modbus TCP, decodes the       *)
(* word-swapped IEEE-754 values and republishes them over MQTT.            *)
(*                                                                         *)
(* The threads of control modelled: app_main, the monitoring task          *)
(* (sdm120_monitoring_task: read_sdm120_data, mqtt_publish_sdm120_data),   *)
(* the MQTT client task that delivers events to mqtt_event_handler, the    *)
(* system event task that runs wifi_event_handler, and wifi_reconnect_task.*)
(* A step of a task runs up to its next call into a collaborator (one      *)
(* field-bus read, one broker publish, one loop-level delay), so the       *)
(* FreeRTOS scheduler's interleavings at those calls are all explored.     *)
(*                                                                         *)
(* A 32-bit value (uint32_t or the bits of a float) is a record            *)
(* [hi, lo] of its two 16-bit halves.                                      *)
(***************************************************************************)
EXTENDS Naturals, Integers, Sequences, FiniteSets, TLC

(***************************************************************************)
(* Program constants                                                       *)
(***************************************************************************)
CID_COUNT == 10
max_retries == 2
MODBUS_RETRY_DELAY_BASE_MS == 200
RETRY_DELAY_STEP_MS == 300
READ_INTERVAL_MS == 5000
RECOVERY_DELAY_MS == 2000
TIMEOUT_CHECK_THRESHOLD == 3
TIMEOUT_CHECK_MIN_CID == 2
HA_SENSOR_COUNT == 10
MQTT_PUBLISH_INDIVIDUAL_TOPICS == TRUE

CID_VOLTAGE == 0
CID_POWER_FACTOR == 5
CID_FREQUENCY == 6

CIDs == 0 .. (CID_COUNT - 1)

\* The per-field subtopic of each CID, in the order publish emits them.
FieldTopics ==
  << "voltage", "current", "active_power", "apparent_power", "reactive_power",
     "power_factor", "frequency", "import_energy", "export_energy", "total_energy" >>

(***************************************************************************)
(* Bounds of the model                                                     *)
(***************************************************************************)
\* Number of distinct register snapshots the meter can present to a batch.
NumSnapshots == 2
\* Connections of the broker session that are told apart (more are counted as this many).
MaxConnections == 2
\* Largest CONFIG_WIFI_MAXIMUM_RETRY a run is configured with.
MaxRetryBudget == 2
\* Events the WiFi driver can have posted that the handler has not yet run for.
MaxPendingEvents == 2

(***************************************************************************)
(* 32-bit values                                                           *)
(***************************************************************************)
U32(h, l) == [hi |-> h, lo |-> l]
Zero32 == U32(0, 0)

\* converter.u32 = raw; swap converter.words[0] and converter.words[1];
\* return converter.f.  The identity below is the faulty variant that forgets the swap.
convert_no_swap(raw_u32) == raw_u32
convert_sdm120_ieee754(raw_u32) ==
  LET words0 == raw_u32.lo
      words1 == raw_u32.hi
      temp == words0
      new_words0 == words1
      new_words1 == temp
  IN  [hi |-> new_words1, lo |-> new_words0]

\* How the meter puts a float on the wire: the two 16-bit halves of the
\* IEEE-754 pattern exchanged (the payload a test vector is built with).
WireEncode(f) == U32(f.lo, f.hi)

\* IEEE-754 patterns of meter values.
F_230_0 == U32(\h4366, \h0000)
F_1_5 == U32(\h3FC0, \h0000)
F_345_0 == U32(\h43AC, \h8000)
F_350_5 == U32(\h43AF, \h4000)
F_60_25 == U32(\h4271, \h0000)
F_0_985 == U32(\h3F7C, \h28F6)
F_50_0 == U32(\h4248, \h0000)
F_1234_567 == U32(\h449A, \h5225)
F_0_0 == U32(\h0000, \h0000)
F_neg0_0 == U32(\h8000, \h0000)
F_600_0 == U32(\h4416, \h0000)
F_70_0 == U32(\h428C, \h0000)
F_neg2_0 == U32(\hC000, \h0000)
F_1_0 == U32(\h3F80, \h0000)

\* Comparison of two floats given by their IEEE-754 patterns, as the FPU
\* makes it: a NaN compares false with everything, the two zeros are equal, a
\* negative value is below a positive one, and within one sign the magnitudes
\* (exponent and mantissa read as one number) decide.
SignBit(f) == f.hi >= \h8000
Magnitude(f) == U32(f.hi % \h8000, f.lo)
IsNaN(f) ==
  LET m == Magnitude(f)
  IN  m.hi > \h7F80 \/ (m.hi = \h7F80 /\ m.lo # 0)
MagnitudeLess(a, b) == a.hi < b.hi \/ (a.hi = b.hi /\ a.lo < b.lo)
FloatLess(a, b) ==
  LET ma == Magnitude(a)
      mb == Magnitude(b)
  IN  /\ ~IsNaN(a) /\ ~IsNaN(b)
      /\ IF SignBit(a) /\ ~SignBit(b) THEN ma # Zero32 \/ mb # Zero32
         ELSE IF ~SignBit(a) /\ SignBit(b) THEN FALSE
         ELSE IF SignBit(a) THEN MagnitudeLess(mb, ma)
         ELSE MagnitudeLess(ma, mb)

\* The limits of the plausibility checks: 500, 45 and 65 as floats; for the
\* comparisons with the doubles 1.1 and -1.1 the largest float below 1.1 and
\* its negative (a float is above 1.1 exactly if it is above 0x3F8CCCCC).
F_500_0 == U32(\h43FA, \h0000)
F_45_0 == U32(\h4234, \h0000)
F_65_0 == U32(\h4282, \h0000)
F_below_1_1 == U32(\h3F8C, \hCCCC)
F_above_neg1_1 == U32(\hBF8C, \hCCCC)

\* Register contents of the meter, one row per snapshot, one column per CID.
MeterTables ==
  << << F_230_0, F_1_5, F_345_0, F_350_5, F_60_25,
        F_0_985, F_50_0, F_1234_567, F_1_0, F_1234_567 >>,
     << F_600_0, F_0_0, F_0_0, F_neg0_0, F_0_0,
        F_neg2_0, F_70_0, F_1_5, F_0_0, F_1_5 >> >>

\* The raw U32 mbc_master_get_parameter delivers for `c` under snapshot `s`.
RawOf(s, c) == WireEncode(MeterTables[((s - 1) % Len(MeterTables)) + 1][c + 1])


\* 16-bit halves the decode is exercised on (zero, sign bit, all ones, NaN and
\* ordinary exponents, asymmetric byte pairs, the halves of the documented
\* test vector 0x80003F00).
HalfSamples ==
  { \h0000, \h0001, \h3F80, \h8000, \hFFFF, \h7FC0, \h4366, \h00FF, \hFF00,
    \h1234, \hABCD, \h3F00 }
PatternSamples == { U32(h, l) : h \in HalfSamples, l \in HalfSamples }

(***************************************************************************)
(* Configuration strings (Kconfig) and is_valid_ip                         *)
(*                                                                         *)
(* A C string is the sequence of its characters.                           *)
(***************************************************************************)
\* Values of CONFIG_WIFI_SSID: not configured, and a network name.
SsidSamples == { << >>, << "l", "a", "b" >> }

\* Values of CONFIG_SDM120_DEVICE_IP a build can be configured with.
Addr_10_0_0_7 == << "1", "0", ".", "0", ".", "0", ".", "7" >>
AddressSamples ==
  { Addr_10_0_0_7,
    << >>,                                                    \* ""
    << "m", "e", "t", "e", "r" >>,                            \* "meter"
    << "1", "0", ".", "0", ".", "0" >>,                       \* "10.0.0"
    << "1", "0", ".", "0", ".", "0", ".", "2", "5", "6" >>,   \* "10.0.0.256"
    << "1", "0", ".", "0", ".", "0", ".", "7", "x" >>,        \* "10.0.0.7x"
    << " ", "1", "0", ".", "0", ".", "0", ".", "7" >>,        \* " 10.0.0.7"
    << "1", "0", ".", "0", ".", "0", ".", "-", "7" >> }       \* "10.0.0.-7"

DigitChars == { "0", "1", "2", "3", "4", "5", "6", "7", "8", "9" }
DigitValue(ch) ==
  CASE ch = "0" -> 0 [] ch = "1" -> 1 [] ch = "2" -> 2 [] ch = "3" -> 3
    [] ch = "4" -> 4 [] ch = "5" -> 5 [] ch = "6" -> 6 [] ch = "7" -> 7
    [] ch = "8" -> 8 [] ch = "9" -> 9

\* strlen(s) == 0
StrEmpty(s) == Len(s) = 0

\* The %d directive of sscanf at position i of s: white space is skipped, an
\* optional sign is taken, then the longest run of decimal digits; without a
\* digit the directive fails.  The result tells whether it matched, the value
\* and the position after the match.
RECURSIVE SkipSpace(_, _)
SkipSpace(s, i) ==
  IF i <= Len(s) /\ s[i] = " " THEN SkipSpace(s, i + 1) ELSE i

RECURSIVE ScanDigits(_, _, _)
ScanDigits(s, i, acc) ==
  IF i <= Len(s) /\ s[i] \in DigitChars
  THEN ScanDigits(s, i + 1, (acc * 10) + DigitValue(s[i]))
  ELSE [val |-> acc, next |-> i]

ScanInt(s, i) ==
  LET j == SkipSpace(s, i)
      signed == j <= Len(s) /\ s[j] \in { "+", "-" }
      k == IF signed THEN j + 1 ELSE j
      d == ScanDigits(s, k, 0)
  IN  [ok |-> d.next > k,
       val |-> IF signed /\ s[j] = "-" THEN 0 - d.val ELSE d.val,
       next |-> d.next]

\* sscanf(ip, "%d.%d.%d.%d", &a, &b, &c, &d): the numbers converted, in order;
\* the conversion stops at the first directive or '.' that does not match, and
\* whatever follows the fourth number is not looked at.
RECURSIVE ScanDotted(_, _, _)
ScanDotted(s, i, got) ==
  LET r == ScanInt(s, i)
  IN  IF ~r.ok THEN got
      ELSE IF Len(got) = 3 THEN Append(got, r.val)
      ELSE IF r.next <= Len(s) /\ s[r.next] = "."
           THEN ScanDotted(s, r.next + 1, Append(got, r.val))
           ELSE Append(got, r.val)

\* is_valid_ip(ip): four numbers were converted and each is within 0 .. 255.
\* The faulty variant accepts every string.
is_valid_ip_any(ip) == TRUE
is_valid_ip(ip) ==
  LET n == ScanDotted(ip, 1, << >>)
  IN  /\ Len(n) = 4
      /\ \A i \in 1 .. 4 : n[i] >= 0 /\ n[i] <= 255

(***************************************************************************)
(* State                                                                   *)
(***************************************************************************)
VARIABLES
  \* configuration (Kconfig), fixed for a run
  ha_discovery,      \* MQTT_HOME_ASSISTANT_DISCOVERY
  wifi_maximum_retry,  \* WIFI_MAXIMUM_RETRY
  wifi_ssid,         \* WIFI_SSID, a sequence of characters
  slave_ip_address,  \* SDM120_SLAVE_IP, a sequence of characters
  \* environment
  bus,               \* fault scenario of the field bus for the current batch
  snap,              \* register snapshot the meter presents to the current batch
  session,           \* the MQTT library's connection to the broker: "down" | "up"
  sta,               \* the WiFi driver's station: "stopped" | "idle" | "connecting" |
                     \* "associated" (no address yet) | "up" (address obtained)
  wifi_evq,          \* events posted by the driver, not yet handled
  \* app_main
  main_pc,
  \* wifi_init_and_connect (called by app_main through init_services)
  wifi_bits, wifi_waited, wifi_result,
  \* WiFi connection management and wifi_event_handler (system event task)
  s_wifi_event_group, s_retry_num, wifi_connected, whpc, w_tmp,
  \* wifi_reconnect_task
  mon_pc, mon_ret_ok, mon_saw_connected, mon_bits,
  \* observation of the WiFi code (history, not program state)
  wifi_obs,          \* what the last handler run or monitor tick saw and did
  \* MQTT client and mqtt_event_handler (runs in the MQTT client task)
  mqtt_client, mqtt_started, mqtt_connected, hpc, disc_i,
  last_will,         \* the last-will message of the session configuration
  \* sdm120_monitoring_task and the functions it calls
  pc, cid, retry_count, timeout_count, success_count, meter_data, result,
  mqtt_result, field_i,
  \* observations of the monitoring task (history, not program state)
  okSet,             \* CIDs read successfully in the current read_sdm120_data call
  att_cid, att_n,    \* last CID a field-bus read was issued for, and how many so far
  att_seq,           \* the CIDs a read was issued for, in order of their first read
  tc_tested,         \* timeout_count as tested after the last give-up (0: none)
  high_rate,         \* the batch ended with the "High timeout rate" warning
  retry_delays,      \* retry delays (ms) taken for att_cid
  warned,            \* CIDs whose value drew a plausibility warning in the
                     \* current read_sdm120_data call
  conn_check,        \* what check_sdm120_connectivity returned if the last read
                     \* attempt ended with it, "none" otherwise
  cycle_delays,      \* loop-level delays (ms) taken in the current cycle
  pub_invocations,   \* calls of mqtt_publish_sdm120_data in the current cycle
  pubCalls,          \* broker publish calls of the current publish invocation
  agg_ret,           \* what the aggregate call of that invocation returned, if made
  \* observations of the broker session (history, not program state)
  disc_log,          \* sensors a discovery config was published for since the last
                     \* MQTT_EVENT_CONNECTED, in order
  disc_batches,      \* discovery batches begun since the last MQTT_EVENT_CONNECTED
  conn_n,            \* MQTT_EVENT_CONNECTED events handled so far (up to MaxConnections)
  tele_early,        \* a telemetry publish call was made after the last
                     \* MQTT_EVENT_CONNECTED and before its handler returned
  \* the broker session handle in use (history, not program state)
  poll_in_publish,   \* the monitoring task is inside esp_mqtt_client_publish
  poll_call_connected,  \* mqtt_connected as it was when that call was entered
  handler_in_publish,  \* mqtt_event_handler is inside esp_mqtt_client_publish
  h_last,            \* the last message mqtt_event_handler has published
  \* convert_sdm120_ieee754 exercised on its own
  dec_x, dec_raw, dec_f, dec_n

cfgVars == << ha_discovery, wifi_maximum_retry, wifi_ssid, slave_ip_address >>
envVars == << bus, snap, session >>
mainVars == << main_pc >>
mqttVars == << mqtt_client, mqtt_started, mqtt_connected, hpc, disc_i >>
readVars == << cid, retry_count, timeout_count, success_count, meter_data, result,
               okSet, att_cid, att_n, att_seq, retry_delays, conn_check, warned,
               tc_tested, high_rate >>
pubVars == << mqtt_result, field_i, pubCalls, agg_ret >>
loopVars == << cycle_delays, pub_invocations >>
decVars == << dec_x, dec_raw, dec_f, dec_n >>
willVars == << last_will >>
wifiVars == << sta, wifi_evq, wifi_bits, wifi_waited, wifi_result, s_wifi_event_group,
               s_retry_num, wifi_connected, whpc, w_tmp, mon_pc, mon_ret_ok,
               mon_saw_connected, mon_bits, wifi_obs >>
discObs == << disc_log, disc_batches, conn_n >>
brokerObs == << poll_in_publish, poll_call_connected, handler_in_publish, h_last >>
vars == << cfgVars, envVars, mainVars, mqttVars, pc, readVars, pubVars, loopVars,
           decVars, willVars, discObs, tele_early, wifiVars, brokerObs >>

(***************************************************************************)
(* Field bus (mbc_master_get_parameter), an external collaborator          *)
(***************************************************************************)
ReadErrs == { "ESP_OK", "ESP_ERR_TIMEOUT", "ESP_ERR_INVALID_RESPONSE" }

\* A fault scenario: either every read may end any way (flaky), or the
\* registers in `dead` never answer and those in `slow` answer on a retry only.
Scenario(f, d, s) == [flaky |-> f, dead |-> d, slow |-> s]
Flaky == Scenario(TRUE, {}, {})
StableScenarios ==
  { Scenario(FALSE, {}, {}),            \* healthy: 10 of 10
    Scenario(FALSE, CIDs, {}),          \* unreachable: 0 of 10
    Scenario(FALSE, {1, 5, 8}, {}),     \* 7 of 10
    Scenario(FALSE, {}, {0, 4}) }       \* two parameters need one retry

\* What a read of `c` at attempt index `rc` can return under scenario `b`.
BusResponses(b, c, rc) ==
  IF b.flaky THEN ReadErrs
  ELSE IF c \in b.dead THEN { "ESP_ERR_TIMEOUT" }
  ELSE IF c \in b.slow /\ rc = 0 THEN { "ESP_ERR_TIMEOUT" }
  ELSE { "ESP_OK" }


(***************************************************************************)
(* Initial state of the MQTT client and the monitoring task: no client, no *)
(* session, the monitoring task does not exist yet.  Where app_main stands *)
(* and the state of the WiFi code are fixed by each specification.         *)
(***************************************************************************)
\* memset(data, 0, sizeof(sdm120_data_t)); the faulty variant leaves the struct as it is.
ClearData_keep(data) == data
ClearData(data) == [c \in CIDs |-> Zero32]

\* meter_data is an uninitialised local of the task until the first memset.
StackGarbage == { [c \in CIDs |-> Zero32], [c \in CIDs |-> U32(\hFFFF, \hFFFF)] }

\* mqtt_cfg.session.last_will: unset in the zero-initialised configuration, or
\* topic <prefix>/status, msg "offline", qos 0, retain 1.
NoWill == [topic |-> "", payload |-> "", qos |-> 0, retain |-> 0]
OfflineWill == [topic |-> "status", payload |-> "offline", qos |-> 0, retain |-> 1]

\* No message published yet.
NoMessage == [topic |-> "", payload |-> "", qos |-> 0, retain |-> 0]

ProgramInit ==
  /\ ha_discovery \in BOOLEAN
  /\ snap = 1
  /\ session = "down"
  /\ mqtt_client = "NULL" /\ mqtt_started = FALSE /\ mqtt_connected = FALSE
  /\ hpc = "idle" /\ disc_i = 0
  /\ last_will = NoWill
  /\ disc_log = << >> /\ disc_batches = 0 /\ conn_n = 0 /\ tele_early = FALSE
  /\ poll_in_publish = FALSE /\ handler_in_publish = FALSE /\ h_last = NoMessage
  /\ poll_call_connected = TRUE
  /\ pc = "not_started"
  /\ cid = 0 /\ retry_count = 0 /\ timeout_count = 0 /\ success_count = 0
  /\ meter_data \in StackGarbage
  /\ result = "none" /\ mqtt_result = "none" /\ field_i = 0
  /\ okSet = {} /\ att_cid = -1 /\ att_n = 0 /\ att_seq = << >>
  /\ retry_delays = << >> /\ conn_check = "none" /\ warned = {}
  /\ tc_tested = 0 /\ high_rate = FALSE
  /\ cycle_delays = << >> /\ pub_invocations = 0 /\ pubCalls = << >> /\ agg_ret = << >>

DecodeIdle ==
  /\ dec_x = Zero32 /\ dec_raw = Zero32 /\ dec_f = Zero32 /\ dec_n = 0


(***************************************************************************)
(* app_main, steps 3 and 4                                                 *)
(***************************************************************************)
\* if (MQTT_HOME_ASSISTANT_DISCOVERY) { mqtt_cfg.session.last_will... }
\* The faulty variant never fills the last will in.
LwtConfigured_never(discovery) == FALSE
LwtConfigured(discovery) == discovery

\* mqtt_init: the configuration (with the last will if configured) is handed to
\* esp_mqtt_client_init; that call, register_event and client_start can each
\* fail; app_main only logs the failure and goes on.
MqttInit ==
  /\ main_pc = "mqtt_init"
  /\ \E outcome \in { "init_fail", "register_fail", "start_fail", "ok" } :
       /\ mqtt_client' = IF outcome = "init_fail" THEN "NULL" ELSE "client"
       /\ last_will' = IF outcome # "init_fail" /\ LwtConfigured(ha_discovery)
                       THEN OfflineWill
                       ELSE NoWill
       /\ mqtt_started' = (outcome = "ok")
  /\ main_pc' = "task_create"
  /\ UNCHANGED << cfgVars, brokerObs, wifiVars, envVars, mqtt_connected, hpc, disc_i, pc, readVars,
                  pubVars, loopVars, decVars, discObs, tele_early >>

\* xTaskCreate(sdm120_monitoring_task, ...): on pdPASS the task starts at the
\* top of its loop; otherwise it never runs.
TaskCreate ==
  /\ main_pc = "task_create"
  /\ \E task_created \in BOOLEAN :
       pc' = IF task_created THEN "loop_top" ELSE "not_started"
  /\ main_pc' = "done"
  /\ UNCHANGED << cfgVars, brokerObs, wifiVars, envVars, mqttVars, readVars, pubVars, loopVars, decVars, willVars,
                  discObs, tele_early >>

(***************************************************************************)
(* read_sdm120_data                                                        *)
(***************************************************************************)
\* for (retry_count = 0; retry_count <= max_retries; retry_count++): whether the
\* loop runs again after the failed attempt with index rc.
LoopContinues_extra(rc) == rc + 1 <= max_retries + 1
LoopContinues(rc) == rc + 1 <= max_retries

\* else if (retry_count < max_retries): a delay follows the failed attempt rc.
DelayBeforeRetry_always(rc) == TRUE
DelayBeforeRetry(rc) == rc < max_retries

\* int delay_ms = MODBUS_RETRY_DELAY_BASE_MS + (retry_count * 300);
RetryDelayMs(rc) == MODBUS_RETRY_DELAY_BASE_MS + (rc * RETRY_DELAY_STEP_MS)

\* for (uint16_t cid = 0; cid < sdm120_cid_count; cid++): the parameter loop has
\* no break and no return, so after a parameter (read or given up) the next
\* one follows.  The faulty variant ends the batch instead.
NextParameter_abort(c) == CID_COUNT
NextParameter_wrap(c) == (c + 1) % CID_COUNT
NextParameter(c) == c + 1

\* switch (cid) { case CID_VOLTAGE: data->voltage = converted_value; ... }
\* The faulty variant writes the field of the neighbouring CID.
StoreField_shifted(data, c, v) == [data EXCEPT ![(c + 1) % CID_COUNT] = v]
StoreField(data, c, v) == [data EXCEPT ![c] = v]

\* Basic data validation: the condition under which the "seems unrealistic"
\* warning is logged for the converted value of a parameter.
PlausibilityWarning(c, v) ==
  \/ c = CID_VOLTAGE /\ (FloatLess(v, F_0_0) \/ FloatLess(F_500_0, v))
  \/ c = CID_FREQUENCY /\ (FloatLess(v, F_45_0) \/ FloatLess(F_65_0, v))
  \/ c = CID_POWER_FACTOR /\ (FloatLess(v, F_above_neg1_1) \/ FloatLess(F_below_1_1, v))

\* The value that goes on to the struct after the validation: converted_value
\* itself, the checks only log.  The faulty variant drops an unrealistic value.
Validated_discards(c, v) == IF PlausibilityWarning(c, v) THEN Zero32 ELSE v
Validated(c, v) == v

\* if (read_err == ESP_ERR_TIMEOUT) timeout_count++;
CountTimeout(tc, err) == IF err = "ESP_ERR_TIMEOUT" THEN tc + 1 ELSE tc

\* if (timeout_count >= 3 && cid >= 2) { check_sdm120_connectivity(); timeout_count = 0; }
\* The faulty variant starts checking one parameter later.
ConnectivityCheckDue_late(tc, c) ==
  tc >= TIMEOUT_CHECK_THRESHOLD /\ c >= TIMEOUT_CHECK_MIN_CID + 1
ConnectivityCheckDue(tc, c) ==
  tc >= TIMEOUT_CHECK_THRESHOLD /\ c >= TIMEOUT_CHECK_MIN_CID

\* esp_netif_is_netif_up(s_wifi_netif): the station interface has its address.
NetifUp(st) == st = "up"

\* check_sdm120_connectivity(): ESP_OK if the interface exists (it does once
\* startup has passed), is up and wifi_connected is set; its caller ignores
\* the value.
check_sdm120_connectivity(netif_up, connected) ==
  IF ~netif_up THEN "ESP_ERR_INVALID_STATE"
  ELSE IF ~connected THEN "ESP_ERR_INVALID_STATE"
  ELSE "ESP_OK"

\* wifi_connected after check_sdm120_connectivity(): the function only reads
\* it.  The faulty variant marks the link down when it reports a failure.
ConnectedAfterCheck_marks_down(netif_up, connected) ==
  check_sdm120_connectivity(netif_up, connected) = "ESP_OK"
ConnectedAfterCheck(netif_up, connected) == connected

\* if (success_count == 0) return ESP_ERR_TIMEOUT; ... return ESP_OK;
\* The faulty variant reports a batch with any failed parameter as all-failed.
ReadResult_strict(sc) == IF sc < CID_COUNT THEN "ESP_ERR_TIMEOUT" ELSE "ESP_OK"
ReadResult(sc) == IF sc = 0 THEN "ESP_ERR_TIMEOUT" ELSE "ESP_OK"

\* Top of the while (1) loop and entry of read_sdm120_data: the struct is
\* cleared and the counters start at zero.  The environment fixes the fault
\* scenario and the register snapshot of this batch.  (read_count, which is
\* only logged, is left out.)
ReadStart ==
  /\ pc = "loop_top"
  /\ pc' = "reading"
  /\ meter_data' = ClearData(meter_data)
  /\ timeout_count' = 0 /\ success_count' = 0
  /\ cid' = 0 /\ retry_count' = 0
  /\ result' = "none" /\ mqtt_result' = "none"
  /\ okSet' = {} /\ att_cid' = -1 /\ att_n' = 0 /\ att_seq' = << >>
  /\ retry_delays' = << >> /\ conn_check' = "none" /\ warned' = {}
  /\ tc_tested' = 0 /\ high_rate' = FALSE
  /\ cycle_delays' = << >> /\ pub_invocations' = 0 /\ pubCalls' = << >>
  /\ agg_ret' = << >>
  /\ snap' \in 1 .. NumSnapshots
  /\ bus' \in (IF bus.flaky THEN { bus } ELSE StableScenarios)
  /\ UNCHANGED << cfgVars, brokerObs, wifiVars, session, mainVars, mqttVars, field_i, decVars, willVars,
                  discObs, tele_early >>

\* One pass of the retry loop for parameter cid: mbc_master_get_parameter is
\* called once; on ESP_OK the value is converted and stored and the parameter
\* loop moves on; on an error the loop either delays and retries or, with the
\* budget spent, counts the failure and moves on.  (mbc_master_get_cid_info
\* succeeds for every CID of the table master_init has set.)
ReadAttempt ==
  /\ pc = "reading"
  /\ cid < CID_COUNT
  /\ \E read_err \in BusResponses(bus, cid, retry_count) :
       LET first == att_cid # cid
           delays == IF first THEN << >> ELSE retry_delays
           raw_u32_data == RawOf(snap, cid)
           converted_value == convert_sdm120_ieee754(raw_u32_data)
       IN
       /\ att_cid' = cid
       /\ att_n' = IF first THEN 1 ELSE att_n + 1
       /\ att_seq' = IF first THEN Append(att_seq, cid) ELSE att_seq
       /\ IF read_err = "ESP_OK"
          THEN /\ success_count' = success_count + 1
               /\ warned' = IF PlausibilityWarning(cid, converted_value)
                            THEN warned \cup { cid }
                            ELSE warned
               /\ meter_data' =
                    StoreField(meter_data, cid, Validated(cid, converted_value))
               /\ okSet' = okSet \cup { cid }
               /\ retry_delays' = delays
               /\ cid' = NextParameter(cid) /\ retry_count' = 0
               /\ conn_check' = "none" /\ tc_tested' = 0
               /\ UNCHANGED << timeout_count, wifi_connected >>
          ELSE /\ retry_delays' =
                    IF DelayBeforeRetry(retry_count)
                    THEN Append(delays, RetryDelayMs(retry_count))
                    ELSE delays
               /\ IF LoopContinues(retry_count)
                  THEN /\ retry_count' = retry_count + 1
                       /\ conn_check' = "none" /\ tc_tested' = 0
                       /\ UNCHANGED << cid, timeout_count, wifi_connected >>
                  ELSE LET tc == CountTimeout(timeout_count, read_err)
                       IN  IF ConnectivityCheckDue(tc, cid)
                           THEN /\ tc_tested' = tc
                                /\ conn_check' =
                                     check_sdm120_connectivity(NetifUp(sta), wifi_connected)
                                /\ wifi_connected' =
                                     ConnectedAfterCheck(NetifUp(sta), wifi_connected)
                                /\ timeout_count' = 0
                                /\ cid' = NextParameter(cid) /\ retry_count' = 0
                           ELSE /\ tc_tested' = tc
                                /\ conn_check' = "none"
                                /\ timeout_count' = tc
                                /\ cid' = NextParameter(cid) /\ retry_count' = 0
                                /\ UNCHANGED wifi_connected
               /\ UNCHANGED << success_count, meter_data, okSet, warned >>
       /\ UNCHANGED high_rate
  /\ UNCHANGED << cfgVars, brokerObs, envVars, mainVars, mqttVars, pc, result, pubVars,
                  loopVars, decVars, willVars, discObs, tele_early,
                  sta, wifi_evq, wifi_bits, wifi_waited, wifi_result,
                  s_wifi_event_group, s_retry_num, whpc, w_tmp, mon_pc, mon_ret_ok,
                  mon_saw_connected, mon_bits, wifi_obs >>

\* else if (timeout_count > sdm120_cid_count / 2): the "High timeout rate"
\* warning of a batch that is not all-failed.
HighTimeoutRate(sc, tc) == sc # 0 /\ tc > CID_COUNT \div 2

\* End of the parameter loop: the statistics decide the warning and the
\* return value.
ReadReturn ==
  /\ pc = "reading"
  /\ cid = CID_COUNT
  /\ result' = ReadResult(success_count)
  /\ high_rate' = HighTimeoutRate(success_count, timeout_count)
  /\ pc' = "read_done"
  /\ UNCHANGED << cfgVars, brokerObs, wifiVars, envVars, mainVars, mqttVars, cid, retry_count,
                  timeout_count, success_count, meter_data, okSet, att_cid, att_n,
                  att_seq, retry_delays, conn_check, warned, tc_tested, pubVars,
                  loopVars, decVars, willVars, discObs, tele_early >>


(***************************************************************************)
(* mqtt_publish_sdm120_data (called by the monitoring task)                *)
(***************************************************************************)
\* What esp_mqtt_client_publish can return: a message id, or -1 on failure.
BrokerReturns == { -1, 0 }

Msg(t, p, q, r) == [topic |-> t, payload |-> p, qos |-> q, retain |-> r]

\* if (!mqtt_connected || mqtt_client == NULL) return ESP_ERR_INVALID_STATE;
\* The faulty variant checks the client handle only.
PublishSkipped_handle_only(connected, client) == client = "NULL"
PublishSkipped(connected, client) == ~connected \/ client = "NULL"

\* if (msg_id == -1) return ESP_FAIL;
\* The faulty variant goes on whatever the broker call returned.
AggregateRejected_ignored(msg_id) == FALSE
AggregateRejected(msg_id) == msg_id = -1

\* if (MQTT_HOME_ASSISTANT_DISCOVERY) publish "online" on <prefix>/status.
\* The faulty variant publishes it whatever the toggle.
AvailabilityEnabled_always(discovery) == TRUE
AvailabilityEnabled(discovery) == discovery

\* The order of the ten per-field publishes;
\* the faulty variant emits them last to first.
FieldAt_reversed(i) == (CID_COUNT - 1) - i
FieldAt(i) == i

\* if (result == ESP_OK) in the monitoring loop: the batch goes to the publisher.
\* The faulty variant hands every batch over.
PublishDue_always(res) == TRUE
PublishDue(res) == res = "ESP_OK"

\* The task calls mqtt_publish_sdm120_data(&meter_data), which returns at once
\* unless the session flag is set and a client exists.
PublishEntry ==
  /\ pc = "read_done"
  /\ PublishDue(result)
  /\ pub_invocations' = pub_invocations + 1
  /\ pubCalls' = << >> /\ agg_ret' = << >>
  /\ IF PublishSkipped(mqtt_connected, mqtt_client)
     THEN /\ mqtt_result' = "ESP_ERR_INVALID_STATE"
          /\ pc' = "interval"
     ELSE /\ pc' = "pub_aggregate"
          /\ UNCHANGED mqtt_result
  /\ UNCHANGED << cfgVars, brokerObs, wifiVars, envVars, mainVars, mqttVars, readVars, field_i,
                  cycle_delays, decVars, willVars,
                  discObs, tele_early >>

\* esp_mqtt_client_publish(mqtt_client, availability_topic, "online", 0, 0, 1):
\* the availability message, the same in mqtt_publish_sdm120_data and at the
\* end of mqtt_publish_ha_discovery.  The faulty variant announces "offline".
AvailabilityMessage_offline == Msg("status", "offline", 0, 1)
AvailabilityMessage == Msg("status", "online", 0, 1)

\* mqtt_connected after a publish call of mqtt_publish_sdm120_data returned
\* msg_id: the function only reads the flag.  The faulty variant takes a
\* rejected call as the end of the session.
ConnectedAfterPublish_drops(connected, msg_id) ==
  IF msg_id = -1 THEN FALSE ELSE connected
ConnectedAfterPublish(connected, msg_id) == connected

\* The monitoring task enters esp_mqtt_client_publish with the next message of
\* the invocation; the call returns in a later step.  Nothing in the program
\* keeps the task out while the MQTT client task is inside the same function.
PollPublishCall ==
  /\ pc \in { "pub_aggregate", "pub_field", "pub_avail" }
  /\ ~poll_in_publish
  /\ poll_in_publish' = TRUE
  /\ poll_call_connected' = mqtt_connected
  /\ UNCHANGED << cfgVars, wifiVars, envVars, mainVars, mqttVars, pc, readVars, pubVars,
                  loopVars, decVars, willVars, discObs, tele_early,
                  handler_in_publish, h_last >>

\* The JSON document with all ten fields goes to <prefix>/data; a rejected
\* call ends the invocation with ESP_FAIL.
PubAggregate ==
  /\ pc = "pub_aggregate"
  /\ poll_in_publish
  /\ poll_in_publish' = FALSE /\ poll_call_connected' = TRUE
  /\ pubCalls' = Append(pubCalls, Msg("data", meter_data, 0, 0))
  /\ tele_early' = (tele_early \/ hpc # "idle")
  /\ \E msg_id \in BrokerReturns :
       /\ mqtt_connected' = ConnectedAfterPublish(mqtt_connected, msg_id)
       /\ agg_ret' = << msg_id >>
       /\ IF AggregateRejected(msg_id)
          THEN /\ mqtt_result' = "ESP_FAIL"
               /\ pc' = "interval"
               /\ UNCHANGED field_i
          ELSE IF MQTT_PUBLISH_INDIVIDUAL_TOPICS
               THEN /\ pc' = "pub_field"
                    /\ field_i' = 0
                    /\ UNCHANGED mqtt_result
               ELSE /\ mqtt_result' = "ESP_OK"
                    /\ pc' = "interval"
                    /\ UNCHANGED field_i
  /\ UNCHANGED << cfgVars, wifiVars, envVars, mainVars, mqtt_client, mqtt_started, hpc,
                  disc_i, readVars, loopVars, decVars, willVars, discObs,
                  handler_in_publish, h_last >>

\* One of the ten per-field publishes (return value ignored).  After the last
\* one the availability message follows if discovery is enabled.
PubField ==
  /\ pc = "pub_field"
  /\ poll_in_publish
  /\ poll_in_publish' = FALSE /\ poll_call_connected' = TRUE
  /\ LET c == FieldAt(field_i)
     IN  pubCalls' = Append(pubCalls, Msg(FieldTopics[c + 1], meter_data[c], 0, 0))
  /\ UNCHANGED agg_ret
  /\ tele_early' = (tele_early \/ hpc # "idle")
  /\ IF field_i + 1 < Len(FieldTopics)
     THEN /\ field_i' = field_i + 1
          /\ UNCHANGED << pc, mqtt_result >>
     ELSE /\ UNCHANGED field_i
          /\ IF AvailabilityEnabled(ha_discovery)
             THEN /\ pc' = "pub_avail"
                  /\ UNCHANGED mqtt_result
             ELSE /\ mqtt_result' = "ESP_OK"
                  /\ pc' = "interval"
  /\ UNCHANGED << cfgVars, wifiVars, envVars, mainVars, mqttVars, readVars, loopVars, decVars,
                  willVars, discObs, handler_in_publish, h_last >>

\* esp_mqtt_client_publish(mqtt_client, availability_topic, "online", 0, 0, 1);
\* return ESP_OK;
PubAvail ==
  /\ pc = "pub_avail"
  /\ poll_in_publish
  /\ poll_in_publish' = FALSE /\ poll_call_connected' = TRUE
  /\ pubCalls' = Append(pubCalls, AvailabilityMessage)
  /\ UNCHANGED agg_ret
  /\ mqtt_result' = "ESP_OK"
  /\ pc' = "interval"
  /\ UNCHANGED << cfgVars, handler_in_publish, h_last, wifiVars, envVars, mainVars, mqttVars, readVars, field_i, loopVars,
                  decVars, willVars,
                  discObs, tele_early >>

(***************************************************************************)
(* sdm120_monitoring_task: the rest of the loop body                       *)
(***************************************************************************)
\* if (result == ESP_ERR_TIMEOUT) vTaskDelay(pdMS_TO_TICKS(2000));
\* The faulty variant compares against the wrong error code.
RecoveryDue_wrong_code(res) == res = "ESP_FAIL"
RecoveryDue(res) == res = "ESP_ERR_TIMEOUT"

\* else branch of if (result == ESP_OK): no publish; the recovery delay if due.
ReadFailed ==
  /\ pc = "read_done"
  /\ ~PublishDue(result)
  /\ cycle_delays' = IF RecoveryDue(result)
                     THEN Append(cycle_delays, RECOVERY_DELAY_MS)
                     ELSE cycle_delays
  /\ pc' = "interval"
  /\ UNCHANGED << cfgVars, brokerObs, wifiVars, envVars, mainVars, mqttVars, readVars, pubVars,
                  pub_invocations, decVars, willVars,
                  discObs, tele_early >>

\* vTaskDelay(read_interval); back to the top of the loop.
IntervalDelay ==
  /\ pc = "interval"
  /\ cycle_delays' = Append(cycle_delays, READ_INTERVAL_MS)
  /\ pc' = "loop_top"
  /\ UNCHANGED << cfgVars, brokerObs, wifiVars, envVars, mainVars, mqttVars, readVars, pubVars,
                  pub_invocations, decVars, willVars,
                  discObs, tele_early >>


(***************************************************************************)
(* mqtt_event_handler and mqtt_publish_ha_discovery (MQTT client task)     *)
(*                                                                         *)
(* The library delivers events one at a time: while the handler is inside  *)
(* the discovery batch (hpc # "idle") no other event is handled.           *)
(***************************************************************************)
\* if (MQTT_HOME_ASSISTANT_DISCOVERY) { vTaskDelay(1000); mqtt_publish_ha_discovery(); }
\* The faulty variant never publishes the discovery batch.
DiscoveryDue_never(discovery) == FALSE
DiscoveryDue(discovery) == discovery

\* case MQTT_EVENT_CONNECTED: mqtt_connected = true; with discovery enabled the
\* handler then sleeps 1000 ms before the discovery batch.
MqttConnected ==
  /\ mqtt_started
  /\ hpc = "idle"
  /\ session = "down"
  /\ session' = "up"
  /\ mqtt_connected' = TRUE
  /\ hpc' = IF DiscoveryDue(ha_discovery) THEN "settle" ELSE "idle"
  /\ disc_log' = << >> /\ disc_batches' = 0 /\ tele_early' = FALSE
  /\ conn_n' = IF conn_n < MaxConnections THEN conn_n + 1 ELSE conn_n
  /\ h_last' = NoMessage
  /\ UNCHANGED << cfgVars, poll_in_publish, poll_call_connected, handler_in_publish, wifiVars, bus, snap, mainVars, mqtt_client, mqtt_started, disc_i,
                  pc, readVars, pubVars, loopVars, decVars, willVars >>

\* End of vTaskDelay(1000) and entry of mqtt_publish_ha_discovery:
\* if (!mqtt_connected || mqtt_client == NULL || !MQTT_HOME_ASSISTANT_DISCOVERY)
\*     return ESP_ERR_INVALID_STATE;
HaDiscoveryEntry ==
  /\ hpc = "settle"
  /\ IF ~mqtt_connected \/ mqtt_client = "NULL" \/ ~ha_discovery
     THEN hpc' = "idle" /\ UNCHANGED << disc_i, disc_batches >>
     ELSE hpc' = "disc" /\ disc_i' = 0 /\ disc_batches' = disc_batches + 1
  /\ UNCHANGED << cfgVars, brokerObs, wifiVars, envVars, mainVars, mqtt_client, mqtt_started,
                  mqtt_connected, pc, readVars, pubVars, loopVars, decVars, willVars,
                  disc_log, conn_n, tele_early >>

\* mqtt_event_handler, inside mqtt_publish_ha_discovery, enters
\* esp_mqtt_client_publish with the next message of the batch.
HandlerPublishCall ==
  /\ hpc \in { "disc", "avail" }
  /\ ~handler_in_publish
  /\ handler_in_publish' = TRUE
  /\ UNCHANGED << cfgVars, wifiVars, envVars, mainVars, mqttVars, pc, readVars, pubVars,
                  loopVars, decVars, willVars, discObs, tele_early,
                  poll_in_publish, poll_call_connected, h_last >>

\* for (int i = 0; i < 10; i++): one retained config message, then 50 ms.
HaDiscoveryPublish ==
  /\ hpc = "disc"
  /\ handler_in_publish
  /\ handler_in_publish' = FALSE
  /\ h_last' = Msg("homeassistant", "config", 0, 1)
  /\ disc_log' = Append(disc_log, disc_i)
  /\ disc_i' = disc_i + 1
  /\ hpc' = IF disc_i + 1 < HA_SENSOR_COUNT THEN "disc" ELSE "avail"
  /\ UNCHANGED << cfgVars, poll_in_publish, poll_call_connected, wifiVars, envVars, mainVars, mqtt_client, mqtt_started,
                  mqtt_connected, pc, readVars, pubVars, loopVars, decVars, willVars,
                  disc_batches, conn_n, tele_early >>

\* The retained "online" that closes the discovery batch; the handler returns.
HaAvailability ==
  /\ hpc = "avail"
  /\ handler_in_publish
  /\ handler_in_publish' = FALSE
  /\ h_last' = AvailabilityMessage
  /\ hpc' = "idle"
  /\ UNCHANGED << cfgVars, poll_in_publish, poll_call_connected, wifiVars, envVars, mainVars, mqtt_client, mqtt_started,
                  mqtt_connected, disc_i, pc, readVars, pubVars, loopVars, decVars, willVars,
                  discObs, tele_early >>

\* case MQTT_EVENT_DISCONNECTED: mqtt_connected = false;  (also delivered when a
\* connection attempt fails)
MqttDisconnected ==
  /\ mqtt_started
  /\ hpc = "idle"
  /\ session' = "down"
  /\ mqtt_connected' = FALSE
  /\ UNCHANGED << cfgVars, brokerObs, wifiVars, bus, snap, mainVars, mqtt_client, mqtt_started, hpc,
                  disc_i, pc, readVars, pubVars, loopVars, decVars, willVars,
                  discObs, tele_early >>

\* case MQTT_EVENT_ERROR: mqtt_connected = false;
MqttError ==
  /\ mqtt_started
  /\ hpc = "idle"
  /\ mqtt_connected' = FALSE
  /\ UNCHANGED << cfgVars, brokerObs, wifiVars, envVars, mainVars, mqtt_client, mqtt_started, hpc,
                  disc_i, pc, readVars, pubVars, loopVars, decVars, willVars,
                  discObs, tele_early >>

(***************************************************************************)
(* convert_sdm120_ieee754 on its own                                       *)
(***************************************************************************)
\* A float pattern dec_x is put on the wire (dec_raw) and decoded.
DecodeInit ==
  /\ dec_x \in PatternSamples
  /\ dec_raw = WireEncode(dec_x)
  /\ dec_f = Zero32
  /\ dec_n = 0

\* Decode dec_raw; the result is also fed back as the next raw value.
DecodeApply ==
  /\ dec_n < 2
  /\ dec_f' = convert_sdm120_ieee754(dec_raw)
  /\ dec_raw' = dec_f'
  /\ dec_n' = dec_n + 1
  /\ UNCHANGED << dec_x, cfgVars, brokerObs, wifiVars, envVars, mainVars, mqttVars, pc, readVars,
                  pubVars, loopVars, willVars, discObs, tele_early >>

(***************************************************************************)
(* WiFi: the driver (an external collaborator), wifi_event_handler,        *)
(* wifi_init_and_connect and wifi_reconnect_task                           *)
(*                                                                         *)
(* The handler runs in the system event task, one event at a time; the     *)
(* startup code and the reconnect task run in tasks of their own, so their *)
(* steps interleave with the handler's.  The handler's and the reconnect   *)
(* task's accesses to s_retry_num and wifi_connected are unsynchronised.   *)
(***************************************************************************)
EventBits == { "WIFI_CONNECTED_BIT", "WIFI_FAIL_BIT" }

\* Everything stops when ESP_ERROR_CHECK aborts the program.
Running == main_pc # "aborted"

\* esp_wifi_connect(): an idle station starts a connection attempt; on a station
\* that is connecting or connected the call changes nothing.
EspWifiConnect(st) == IF st = "idle" THEN "connecting" ELSE st

\* esp_wifi_sta_get_ap_info(&ap_info) == ESP_OK: the station is associated.
ApInfoOk(st) == st \in { "associated", "up" }

\* esp_event_post of the driver; the handler runs later.
Post(q, ev) == Append(q, ev)

Obs(w, wc, pr, cn, fl) ==
  [who |-> w, was_connected |-> wc, probe_ok |-> pr, connect |-> cn, failed |-> fl]
NoObs == Obs("none", FALSE, FALSE, FALSE, FALSE)

\* State of the WiFi code on entry of app_main.
WifiBoot ==
  /\ wifi_maximum_retry \in 0 .. MaxRetryBudget
  /\ wifi_ssid \in SsidSamples
  /\ sta = "stopped" /\ wifi_evq = << >>
  /\ wifi_bits = {} /\ wifi_waited = FALSE /\ wifi_result = "none"
  /\ s_wifi_event_group = {} /\ s_retry_num = 0 /\ wifi_connected = FALSE
  /\ whpc = "idle" /\ w_tmp = 0
  /\ mon_pc = "none" /\ mon_ret_ok = FALSE /\ mon_saw_connected = FALSE /\ mon_bits = {}
  /\ wifi_obs = NoObs

\* State of the WiFi code once init_services has returned ESP_OK and the link
\* has stayed up since: connected, the reconnect task between two ticks.
WifiSettled ==
  /\ wifi_maximum_retry = MaxRetryBudget
  /\ wifi_ssid \in SsidSamples /\ ~StrEmpty(wifi_ssid)
  /\ slave_ip_address = Addr_10_0_0_7
  /\ sta = "up" /\ wifi_evq = << >>
  /\ wifi_bits = { "WIFI_CONNECTED_BIT" } /\ wifi_waited = TRUE /\ wifi_result = "ESP_OK"
  /\ s_wifi_event_group = { "WIFI_CONNECTED_BIT" } /\ s_retry_num = 0
  /\ wifi_connected = TRUE
  /\ whpc = "idle" /\ w_tmp = 0
  /\ mon_pc = "sleep" /\ mon_ret_ok = FALSE /\ mon_saw_connected = FALSE /\ mon_bits = {}
  /\ wifi_obs = NoObs

\* --- the driver -----------------------------------------------------------
\* A connection attempt ends: the station associates, or the attempt fails and
\* WIFI_EVENT_STA_DISCONNECTED is posted.
DriverAttemptEnds ==
  /\ Running
  /\ sta = "connecting"
  /\ \E associated \in BOOLEAN :
       IF associated
       THEN /\ sta' = "associated"
            /\ UNCHANGED wifi_evq
       ELSE /\ Len(wifi_evq) < MaxPendingEvents
            /\ sta' = "idle"
            /\ wifi_evq' = Post(wifi_evq, "STA_DISCONNECTED")
  /\ UNCHANGED << cfgVars, brokerObs, bus, snap, session, mainVars, mqttVars, pc, readVars,
                  pubVars, loopVars, decVars, willVars, discObs, tele_early,
                  wifi_bits, wifi_waited, wifi_result, s_wifi_event_group,
                  s_retry_num, wifi_connected, whpc, w_tmp, mon_pc, mon_ret_ok,
                  mon_saw_connected, mon_bits, wifi_obs >>

\* The associated station obtains its address: IP_EVENT_STA_GOT_IP is posted.
DriverGotIp ==
  /\ Running
  /\ sta = "associated"
  /\ Len(wifi_evq) < MaxPendingEvents
  /\ sta' = "up"
  /\ wifi_evq' = Post(wifi_evq, "GOT_IP")
  /\ UNCHANGED << cfgVars, brokerObs, bus, snap, session, mainVars, mqttVars, pc, readVars,
                  pubVars, loopVars, decVars, willVars, discObs, tele_early,
                  wifi_bits, wifi_waited, wifi_result, s_wifi_event_group,
                  s_retry_num, wifi_connected, whpc, w_tmp, mon_pc, mon_ret_ok,
                  mon_saw_connected, mon_bits, wifi_obs >>

\* The link is lost: WIFI_EVENT_STA_DISCONNECTED is posted.
DriverLinkLost ==
  /\ Running
  /\ sta \in { "associated", "up" }
  /\ Len(wifi_evq) < MaxPendingEvents
  /\ sta' = "idle"
  /\ wifi_evq' = Post(wifi_evq, "STA_DISCONNECTED")
  /\ UNCHANGED << cfgVars, brokerObs, bus, snap, session, mainVars, mqttVars, pc, readVars,
                  pubVars, loopVars, decVars, willVars, discObs, tele_early,
                  wifi_bits, wifi_waited, wifi_result, s_wifi_event_group,
                  s_retry_num, wifi_connected, whpc, w_tmp, mon_pc, mon_ret_ok,
                  mon_saw_connected, mon_bits, wifi_obs >>

\* --- wifi_event_handler ---------------------------------------------------
\* if (s_retry_num < WIFI_MAXIMUM_RETRY): the event may use a retry.  The faulty
\* variants allow one retry too many, and none.
RetryAllowed_one_more(n, max) == n <= max
RetryAllowed_never(n, max) == FALSE
RetryAllowed(n, max) == n < max

\* The next event to handle (the handler is not inside an earlier event).
HandlerTakes(ev) ==
  /\ Running
  /\ whpc = "idle"
  /\ wifi_evq # << >>
  /\ Head(wifi_evq) = ev

\* WIFI_EVENT_STA_START: esp_wifi_connect();
HandleStaStart ==
  /\ HandlerTakes("STA_START")
  /\ wifi_evq' = Tail(wifi_evq)
  /\ sta' = EspWifiConnect(sta)
  /\ UNCHANGED << cfgVars, brokerObs, bus, snap, session, mainVars, mqttVars, pc, readVars,
                  pubVars, loopVars, decVars, willVars, discObs, tele_early,
                  wifi_bits, wifi_waited, wifi_result, s_wifi_event_group,
                  s_retry_num, wifi_connected, whpc, w_tmp, mon_pc, mon_ret_ok,
                  mon_saw_connected, mon_bits, wifi_obs >>

\* WIFI_EVENT_STA_DISCONNECTED: wifi_connected = false; within the budget
\* esp_wifi_connect() is called and s_retry_num++ follows (next step);
\* otherwise WIFI_FAIL_BIT is set.
HandleStaDisconnected ==
  /\ HandlerTakes("STA_DISCONNECTED")
  /\ wifi_evq' = Tail(wifi_evq)
  /\ wifi_connected' = FALSE
  /\ IF RetryAllowed(s_retry_num, wifi_maximum_retry)
     THEN /\ sta' = EspWifiConnect(sta)
          /\ w_tmp' = s_retry_num
          /\ whpc' = "incr"
          /\ wifi_obs' = Obs("link_down", wifi_connected, FALSE, TRUE, FALSE)
          /\ UNCHANGED s_wifi_event_group
     ELSE /\ s_wifi_event_group' = s_wifi_event_group \cup { "WIFI_FAIL_BIT" }
          /\ wifi_obs' = Obs("link_down", wifi_connected, FALSE, FALSE, TRUE)
          /\ UNCHANGED << sta, w_tmp, whpc >>
  /\ UNCHANGED << cfgVars, brokerObs, bus, snap, session, mainVars, mqttVars, pc, readVars,
                  pubVars, loopVars, decVars, willVars, discObs, tele_early,
                  wifi_bits, wifi_waited, wifi_result, s_retry_num, mon_pc,
                  mon_ret_ok, mon_saw_connected, mon_bits >>

\* s_retry_num++ after esp_wifi_connect() has returned.  The variable is not
\* volatile and wifi_reconnect_task may have written it meanwhile: the build
\* increments either the value it read for the test or the value it reads now.
\* (w_tmp, the value read for the test, is dead afterwards.)
HandleRetryIncrement ==
  /\ Running
  /\ whpc = "incr"
  /\ s_retry_num' \in { w_tmp + 1, s_retry_num + 1 }
  /\ w_tmp' = 0
  /\ whpc' = "idle"
  /\ UNCHANGED << cfgVars, brokerObs, envVars, sta, wifi_evq, mainVars, mqttVars, pc, readVars,
                  pubVars, loopVars, decVars, willVars, discObs, tele_early,
                  wifi_bits, wifi_waited, wifi_result, s_wifi_event_group,
                  wifi_connected, mon_pc, mon_ret_ok, mon_saw_connected,
                  mon_bits, wifi_obs >>

\* IP_EVENT_STA_GOT_IP: s_retry_num = 0; wifi_connected = true; WIFI_CONNECTED_BIT set.
HandleGotIp ==
  /\ HandlerTakes("GOT_IP")
  /\ wifi_evq' = Tail(wifi_evq)
  /\ s_retry_num' = 0
  /\ wifi_connected' = TRUE
  /\ s_wifi_event_group' = s_wifi_event_group \cup { "WIFI_CONNECTED_BIT" }
  /\ UNCHANGED << cfgVars, brokerObs, bus, snap, session, sta, mainVars, mqttVars, pc, readVars,
                  pubVars, loopVars, decVars, willVars, discObs, tele_early,
                  wifi_bits, wifi_waited, wifi_result, whpc, w_tmp, mon_pc,
                  mon_ret_ok, mon_saw_connected, mon_bits, wifi_obs >>

\* --- wifi_init_and_connect and its caller ---------------------------------
\* if (bits & WIFI_CONNECTED_BIT) ... else if (bits & WIFI_FAIL_BIT) ... else ...
\* The faulty variant looks at WIFI_FAIL_BIT first.
WaitResult_fail_first(bits) ==
  IF "WIFI_FAIL_BIT" \in bits THEN "ESP_FAIL"
  ELSE IF "WIFI_CONNECTED_BIT" \in bits THEN "ESP_OK"
  ELSE "ESP_ERR_TIMEOUT"
WaitResult(bits) ==
  IF "WIFI_CONNECTED_BIT" \in bits THEN "ESP_OK"
  ELSE IF "WIFI_FAIL_BIT" \in bits THEN "ESP_FAIL"
  ELSE "ESP_ERR_TIMEOUT"

\* if (strlen(WIFI_SSID) == 0) return ESP_ERR_INVALID_ARG; then the event group
\* and the station interface are created, which can fail.
InitOutcomes(ssid) ==
  IF StrEmpty(ssid) THEN { "no_ssid" }
  ELSE { "no_event_group", "no_netif", "started" }

\* Up to esp_wifi_start(): an empty SSID, no event group or no station
\* interface end the call early; otherwise the driver starts and posts
\* WIFI_EVENT_STA_START.
WifiInitAndConnect ==
  /\ main_pc = "wifi_init"
  /\ \E outcome \in InitOutcomes(wifi_ssid) :
       IF outcome = "started"
       THEN /\ sta' = "idle"
            /\ wifi_evq' = Post(wifi_evq, "STA_START")
            /\ main_pc' = "wifi_wait"
            /\ UNCHANGED wifi_result
       ELSE /\ wifi_result' = ( IF outcome = "no_ssid" THEN "ESP_ERR_INVALID_ARG"
                                ELSE IF outcome = "no_event_group" THEN "ESP_ERR_NO_MEM"
                                ELSE "ESP_FAIL" )
            /\ main_pc' = "wifi_returned"
            /\ UNCHANGED << sta, wifi_evq >>
  /\ UNCHANGED << cfgVars, brokerObs, bus, snap, session, mqttVars, pc, readVars,
                  pubVars, loopVars, decVars, willVars, discObs, tele_early,
                  wifi_bits, wifi_waited, s_wifi_event_group,
                  s_retry_num, wifi_connected, whpc, w_tmp, mon_pc, mon_ret_ok,
                  mon_saw_connected, mon_bits, wifi_obs >>

\* xEventGroupWaitBits(..., pdMS_TO_TICKS(WIFI_CONNECT_TIMEOUT_MS)) returns the
\* bits: one of the two is set, or the timeout has passed (then usually none
\* is).  On WIFI_CONNECTED_BIT wifi_reconnect_task is created (the return value
\* of xTaskCreate is not looked at).
WifiWaitReturns ==
  /\ main_pc = "wifi_wait"
  /\ wifi_bits' = s_wifi_event_group
  /\ wifi_waited' = TRUE
  /\ wifi_result' = WaitResult(s_wifi_event_group)
  /\ \E task_created \in BOOLEAN :
       mon_pc' = IF WaitResult(s_wifi_event_group) = "ESP_OK" /\ task_created
                 THEN "probe"
                 ELSE mon_pc
  /\ main_pc' = "wifi_returned"
  /\ UNCHANGED << cfgVars, brokerObs, envVars, sta, wifi_evq, mqttVars, pc, readVars,
                  pubVars, loopVars, decVars, willVars, discObs, tele_early,
                  s_wifi_event_group, s_retry_num, wifi_connected, whpc, w_tmp,
                  mon_ret_ok, mon_saw_connected, mon_bits, wifi_obs >>

\* ESP_ERROR_CHECK(wifi_init_and_connect()) in init_services: anything but
\* ESP_OK aborts the program.
InitServicesCheck ==
  /\ main_pc = "wifi_returned"
  /\ main_pc' = IF wifi_result = "ESP_OK" THEN "validate_ip" ELSE "aborted"
  /\ UNCHANGED << cfgVars, brokerObs, wifiVars, envVars, mqttVars, pc, readVars,
                  pubVars, loopVars, decVars, willVars, discObs, tele_early >>

\* if (!is_valid_ip(slave_ip_address)) return ESP_ERR_INVALID_ARG; under
\* ESP_ERROR_CHECK(init_services()) in app_main: a rejected address aborts.
ValidateSlaveIp ==
  /\ main_pc = "validate_ip"
  /\ main_pc' = IF is_valid_ip(slave_ip_address) THEN "master_init" ELSE "aborted"
  /\ UNCHANGED << cfgVars, brokerObs, wifiVars, envVars, mqttVars, pc, readVars,
                  pubVars, loopVars, decVars, willVars, discObs, tele_early >>

\* ESP_ERROR_CHECK(master_init()): the Modbus stack (mbc_master_init_tcp, _setup,
\* _set_descriptor, _start) can fail, which aborts; otherwise step 3 follows.
MasterInit ==
  /\ main_pc = "master_init"
  /\ \E ok \in BOOLEAN :
       main_pc' = IF ok THEN "mqtt_init" ELSE "aborted"
  /\ UNCHANGED << cfgVars, brokerObs, wifiVars, envVars, mqttVars, pc, readVars,
                  pubVars, loopVars, decVars, willVars, discObs, tele_early >>

\* --- wifi_reconnect_task --------------------------------------------------
\* if (ret != ESP_OK || !wifi_connected): the tick reconnects.  The faulty
\* variant reconnects only on a failed probe.
ReconnectDue_probe_only(ret_ok, connected) == ~ret_ok
ReconnectDue(ret_ok, connected) == ~ret_ok \/ ~connected

\* Top of the loop: the probe and the test.  (ret and the value read from
\* wifi_connected are kept only on the way into the reconnect branch.)
MonitorProbe ==
  /\ Running
  /\ mon_pc = "probe"
  /\ IF ReconnectDue(ApInfoOk(sta), wifi_connected)
     THEN /\ mon_pc' = "reconnect"
          /\ mon_ret_ok' = ApInfoOk(sta)
          /\ mon_saw_connected' = wifi_connected
          /\ UNCHANGED wifi_obs
     ELSE /\ mon_pc' = "sleep"
          /\ wifi_obs' = Obs("monitor", wifi_connected, ApInfoOk(sta), FALSE, FALSE)
          /\ UNCHANGED << mon_ret_ok, mon_saw_connected >>
  /\ UNCHANGED << cfgVars, brokerObs, envVars, sta, wifi_evq, mainVars, mqttVars, pc, readVars,
                  pubVars, loopVars, decVars, willVars, discObs, tele_early,
                  wifi_bits, wifi_waited, wifi_result, s_wifi_event_group,
                  s_retry_num, wifi_connected, whpc, w_tmp, mon_bits >>

\* wifi_connected = false; s_retry_num = 0; esp_wifi_connect();
MonitorReconnect ==
  /\ Running
  /\ mon_pc = "reconnect"
  /\ wifi_connected' = FALSE
  /\ s_retry_num' = 0
  /\ sta' = EspWifiConnect(sta)
  /\ wifi_obs' = Obs("monitor", mon_saw_connected, mon_ret_ok, TRUE, FALSE)
  /\ mon_ret_ok' = FALSE /\ mon_saw_connected' = FALSE
  /\ mon_pc' = "wait"
  /\ UNCHANGED << cfgVars, brokerObs, bus, snap, session, wifi_evq, mainVars, mqttVars, pc,
                  readVars, pubVars, loopVars, decVars, willVars, discObs, tele_early,
                  wifi_bits, wifi_waited, wifi_result, s_wifi_event_group,
                  whpc, w_tmp, mon_bits >>

\* xEventGroupWaitBits returns: a bit is set or the timeout has passed.
MonitorWaitReturns ==
  /\ Running
  /\ mon_pc = "wait"
  /\ mon_bits' = s_wifi_event_group
  /\ mon_pc' = "clear"
  /\ UNCHANGED << cfgVars, brokerObs, envVars, sta, wifi_evq, mainVars, mqttVars, pc, readVars,
                  pubVars, loopVars, decVars, willVars, discObs, tele_early,
                  wifi_bits, wifi_waited, wifi_result, s_wifi_event_group,
                  s_retry_num, wifi_connected, whpc, w_tmp, mon_ret_ok,
                  mon_saw_connected, wifi_obs >>

\* The result is logged (bits is dead afterwards), then
\* xEventGroupClearBits(s_wifi_event_group, WIFI_CONNECTED_BIT | WIFI_FAIL_BIT);
MonitorClear ==
  /\ Running
  /\ mon_pc = "clear"
  /\ s_wifi_event_group' = s_wifi_event_group \ EventBits
  /\ mon_bits' = {}
  /\ mon_pc' = "sleep"
  /\ UNCHANGED << cfgVars, brokerObs, envVars, sta, wifi_evq, mainVars, mqttVars, pc, readVars,
                  pubVars, loopVars, decVars, willVars, discObs, tele_early,
                  wifi_bits, wifi_waited, wifi_result, s_retry_num, wifi_connected,
                  whpc, w_tmp, mon_ret_ok, mon_saw_connected, wifi_obs >>

\* vTaskDelay(pdMS_TO_TICKS(WIFI_RECONNECT_INTERVAL_MS)); the next tick.
MonitorTick ==
  /\ Running
  /\ mon_pc = "sleep"
  /\ mon_pc' = "probe"
  /\ UNCHANGED << cfgVars, brokerObs, envVars, sta, wifi_evq, mainVars, mqttVars, pc, readVars,
                  pubVars, loopVars, decVars, willVars, discObs, tele_early,
                  wifi_bits, wifi_waited, wifi_result, s_wifi_event_group,
                  s_retry_num, wifi_connected, whpc, w_tmp, mon_ret_ok,
                  mon_saw_connected, mon_bits, wifi_obs >>

(***************************************************************************)
(* Specifications                                                          *)
(***************************************************************************)
MainStep == MqttInit \/ TaskCreate
ReadStep == ReadStart \/ ReadAttempt \/ ReadReturn
LoopStep == PublishEntry \/ ReadFailed \/ IntervalDelay
PublishStep == PollPublishCall \/ PubAggregate \/ PubField \/ PubAvail
HandlerStep ==
  \/ MqttConnected \/ HaDiscoveryEntry \/ HandlerPublishCall \/ HaDiscoveryPublish
  \/ HaAvailability \/ MqttDisconnected \/ MqttError

\* Entry of step 3 of app_main, with the link up.
AtStep3 == main_pc = "mqtt_init" /\ WifiSettled

Init == ProgramInit /\ AtStep3 /\ DecodeIdle /\ bus = Scenario(FALSE, {}, {})

\* The program from step 3 of app_main on, with the field bus in one of the
\* stable fault scenarios and the WiFi link staying up.
Next == MainStep \/ ReadStep \/ LoopStep \/ PublishStep \/ HandlerStep
Spec == Init /\ [][Next]_vars

\* The same with the monitoring task scheduled: it is a FreeRTOS task of its
\* own whose blocking calls (a field-bus read with its response timeout, a
\* broker publish, vTaskDelay) all return, so its next step is always taken.
PollStep == ReadStep \/ LoopStep \/ PublishStep
SpecPollFair == Spec /\ WF_vars(PollStep)

\* The reader under every per-attempt failure pattern, in runs where the
\* broker never answers (no MQTT event is delivered).
InitRead == ProgramInit /\ AtStep3 /\ DecodeIdle /\ bus = Flaky
NextRead == MainStep \/ ReadStep \/ LoopStep
SpecRead == InitRead /\ [][NextRead]_vars

\* The decode applied to sample patterns.
InitDecode ==
  ProgramInit /\ AtStep3 /\ DecodeInit /\ bus = Scenario(FALSE, {}, {})
NextDecode == DecodeApply
SpecDecode == InitDecode /\ [][NextDecode]_vars

\* The WiFi code from the entry of app_main: startup up to step 3, the driver,
\* the event handler and the reconnect task.
DriverStep == DriverAttemptEnds \/ DriverGotIp \/ DriverLinkLost
WifiHandlerStep ==
  HandleStaStart \/ HandleStaDisconnected \/ HandleRetryIncrement \/ HandleGotIp
StartupStep ==
  \/ WifiInitAndConnect \/ WifiWaitReturns \/ InitServicesCheck \/ ValidateSlaveIp
  \/ MasterInit
MonitorStep ==
  MonitorProbe \/ MonitorReconnect \/ MonitorWaitReturns \/ MonitorClear \/ MonitorTick
InitWifi ==
  /\ ProgramInit /\ ha_discovery /\ main_pc = "wifi_init" /\ WifiBoot /\ DecodeIdle
  /\ slave_ip_address = Addr_10_0_0_7
  /\ bus = Scenario(FALSE, {}, {})
NextWifi == DriverStep \/ WifiHandlerStep \/ StartupStep \/ MonitorStep
SpecWifi == InitWifi /\ [][NextWifi]_vars

\* The same with the startup task scheduled: its bounded wait does return.
SpecWifiFair == SpecWifi /\ WF_vars(WifiWaitReturns)

\* The same with the system event task and wifi_reconnect_task scheduled as
\* well: an event that is posted is handled, and every blocking call of the
\* reconnect task (the bounded wait, vTaskDelay) returns.
SpecWifiLive == SpecWifiFair /\ WF_vars(WifiHandlerStep) /\ WF_vars(MonitorStep)

\* The program from the entry of app_main into the poll loop, under every
\* configuration sample, in runs where the link stays as the startup wait left
\* it (the driver posts no further event) and the broker never answers.
BootDriverStep == main_pc = "wifi_wait" /\ DriverStep
InitBoot ==
  /\ ProgramInit /\ main_pc = "wifi_init" /\ WifiBoot /\ DecodeIdle
  /\ slave_ip_address \in AddressSamples
  /\ bus = Scenario(FALSE, {}, {})
NextBoot ==
  StartupStep \/ BootDriverStep \/ WifiHandlerStep \/ MainStep \/ ReadStep \/ LoopStep
SpecBoot == InitBoot /\ [][NextBoot]_vars

(***************************************************************************)
(* Properties                                                              *)
(***************************************************************************)
\* The float the meter holds for CID c in the current batch.
MeterValue(c) == MeterTables[((snap - 1) % Len(MeterTables)) + 1][c + 1]

\* What field c must hold given which reads succeeded in this invocation.
ExpectedField(c) == IF c \in okSet THEN MeterValue(c) ELSE Zero32

\* A read_sdm120_data invocation has returned and the next has not begun.
ReadReturned == result # "none"

\* A publish invocation of this cycle has returned.
PublishReturned == pc \in { "interval", "loop_top" } /\ pub_invocations = 1

\* C1: read_sdm120_data returns ESP_ERR_TIMEOUT (all-failed) exactly when none
\* of the ten parameters was read successfully in that invocation; with at
\* least one success it returns ESP_OK, whatever the failure pattern.
C1_AllFailedIffNoSuccess ==
  ReadReturned =>
    /\ (result = "ESP_ERR_TIMEOUT") <=> (okSet = {})
    /\ (okSet # {}) => (result = "ESP_OK")

C1_Witness ==
  /\ pc = "read_done"
  /\ Cardinality(okSet) = 1
  /\ result = "ESP_OK"

\* C2: within one invocation no parameter is read more than 3 times, whatever
\* the pattern of timeouts and other errors.
C2_AttemptsBounded == att_n <= 3

C2_Witness ==
  /\ pc = "reading"
  /\ att_n = 3
  /\ att_cid \notin okSet
  /\ cid = att_cid + 1

\* C3: in every cycle the publisher is invoked exactly once if the batch's
\* outcome is not all-failed and not at all if it is; an all-failed batch is
\* never handed to the publisher.
C3_PublishOncePerGoodBatch ==
  /\ pub_invocations <= 1
  /\ (pub_invocations = 1) => (result = "ESP_OK" /\ okSet # {})
  /\ (pc \in { "interval", "loop_top" } /\ ReadReturned) =>
       (pub_invocations = IF result = "ESP_ERR_TIMEOUT" THEN 0 ELSE 1)

C3_Witness ==
  /\ pc = "loop_top"
  /\ result = "ESP_ERR_TIMEOUT"
  /\ okSet = {}
  /\ pub_invocations = 0

\* C4: a cycle takes the 2000 ms recovery delay exactly when its batch was
\* all-failed, and every cycle then waits 5000 ms before the next batch; the
\* value publish returned (OK, not connected, failure) changes no delay.
C4_CycleDelays ==
  (pc = "loop_top" /\ ReadReturned) =>
    /\ cycle_delays = IF result = "ESP_ERR_TIMEOUT" THEN << 2000, 5000 >> ELSE << 5000 >>
    /\ (mqtt_result \in { "ESP_OK", "ESP_ERR_INVALID_STATE", "ESP_FAIL" }) =>
         (cycle_delays = << 5000 >>)

C4_Witness ==
  /\ pc = "loop_top"
  /\ mqtt_result = "ESP_FAIL"
  /\ cycle_delays = << 5000 >>

\* C5: during and after an invocation every field equals the value decoded from
\* its successful read of this invocation, or zero if it had none, whatever the
\* struct held before the invocation.
C5_FieldsDecodedOrZero ==
  (pc = "reading" \/ ReadReturned) =>
    \A c \in CIDs : meter_data[c] = ExpectedField(c)

C5_Witness ==
  /\ pc = "read_done"
  /\ Cardinality(okSet) = 7
  /\ \E c \in okSet : meter_data[c] # Zero32
  /\ \E c \in CIDs \ okSet : meter_data[c] = Zero32

\* C6 (as stated): what read_sdm120_data returns tells, per parameter, whether
\* its read succeeded; the reading is all it returns besides the outcome, so
\* bit i of the bitmap is "field i is not zero".
ReturnedSuccessBits == { c \in CIDs : meter_data[c] # Zero32 }

C6_Original_BitmapExact ==
  ReadReturned => (ReturnedSuccessBits = okSet)

\* C6 (amended): no bitmap is returned; a non-zero field implies that its read
\* succeeded in this invocation and success_count is the number of parameters
\* read successfully, but a zero field may be a failed read or a genuine zero.
C6_Amended_NonZeroImpliesSuccess ==
  ReadReturned =>
    /\ ReturnedSuccessBits \subseteq okSet
    /\ success_count = Cardinality(okSet)

C6_Witness ==
  /\ pc = "read_done"
  /\ \E c \in okSet : meter_data[c] = Zero32
  /\ \E c \in CIDs \ okSet : meter_data[c] = Zero32
  /\ \E c \in okSet : meter_data[c] # Zero32

\* C7: a publish invocation entered while mqtt_connected is false or there is
\* no client handle returns ESP_ERR_INVALID_STATE at once and makes no broker
\* call; nothing of the skipped reading is kept: every broker call of a later
\* invocation carries the reading of its own cycle.
C7_SkipWhenDisconnected ==
  /\ [][ ( /\ pc = "read_done"
           /\ pc' # "read_done"
           /\ result = "ESP_OK"
           /\ (~mqtt_connected \/ mqtt_client = "NULL") )
         => ( /\ pc' = "interval"
              /\ mqtt_result' = "ESP_ERR_INVALID_STATE"
              /\ pubCalls' = << >> ) ]_vars
  /\ [](mqtt_result = "ESP_ERR_INVALID_STATE" => pubCalls = << >>)
  /\ [](\A i \in DOMAIN pubCalls :
          pubCalls[i].topic = "data" => pubCalls[i].payload = meter_data)

C7_Witness ==
  /\ pc = "interval"
  /\ mqtt_result = "ESP_ERR_INVALID_STATE"
  /\ mqtt_client = "client"
  /\ mqtt_started
  /\ ~mqtt_connected
  /\ pubCalls = << >>

\* C8 (as stated): a publish that ran with all ten parameters read and returned
\* ESP_OK made exactly 12 broker calls, whatever the discovery toggle.
C8_Original_TwelveCalls ==
  (PublishReturned /\ mqtt_result = "ESP_OK" /\ okSet = CIDs) => (Len(pubCalls) = 12)

\* C8 (amended): with all ten parameters read, a publish entered while
\* connected makes 1 aggregate + 10 per-field calls and, only with discovery
\* enabled, 1 availability call: 12 with discovery on, 11 with it off; if the
\* broker rejects the aggregate call that call is the only one.
C8_Amended_CallCount ==
  (PublishReturned /\ okSet = CIDs) =>
    Len(pubCalls) = ( IF mqtt_result = "ESP_OK" THEN (IF ha_discovery THEN 12 ELSE 11)
                      ELSE IF mqtt_result = "ESP_FAIL" THEN 1
                      ELSE 0 )

C8_Witness ==
  /\ PublishReturned
  /\ okSet = CIDs
  /\ mqtt_result = "ESP_OK"
  /\ ~ha_discovery
  /\ Len(pubCalls) = 11

\* The messages of one complete publish, in order, from what was read.
ExpectedAggregate == Msg("data", [c \in CIDs |-> ExpectedField(c)], 0, 0)
ExpectedFields == [i \in 1 .. CID_COUNT |-> Msg(FieldTopics[i], ExpectedField(i - 1), 0, 0)]
OnlineMsg == Msg("status", "online", 0, 1)
IsPrefix(s, t) == Len(s) <= Len(t) /\ \A i \in 1 .. Len(s) : s[i] = t[i]

\* C9 (as stated): a publish that returned ESP_OK emitted the aggregate message,
\* then the ten field messages, then one retained "online" as the last message.
C9_Original_OnlineLast ==
  (PublishReturned /\ mqtt_result = "ESP_OK") =>
    (pubCalls = << ExpectedAggregate >> \o ExpectedFields \o << OnlineMsg >>)

\* C9 (amended): a publish entered while connected emits the aggregate message
\* first; if the broker accepts it, the ten field messages follow in table
\* order whatever the per-field read success (failed fields as zero); the
\* retained "online" follows as the last message only when discovery is
\* enabled.  A rejected aggregate message is the only message.
ExpectedCalls ==
  << ExpectedAggregate >> \o ExpectedFields
     \o (IF ha_discovery THEN << OnlineMsg >> ELSE << >>)

C9_Amended_Order ==
  /\ IsPrefix(pubCalls, ExpectedCalls)
  /\ (PublishReturned /\ mqtt_result = "ESP_OK") => (pubCalls = ExpectedCalls)
  /\ (PublishReturned /\ mqtt_result = "ESP_FAIL") => (pubCalls = << ExpectedAggregate >>)

C9_Witness ==
  /\ PublishReturned
  /\ mqtt_result = "ESP_OK"
  /\ Cardinality(okSet) = 7
  /\ 1 \notin okSet
  /\ ha_discovery
  /\ Len(pubCalls) = 12
  /\ pubCalls[12] = OnlineMsg
  /\ pubCalls[3].payload = Zero32

\* C10: the decode undoes the meter's half swap on every pattern, and applied
\* twice it gives back the raw value it started from.
C10_DecodeInvolution ==
  /\ (dec_n = 1) => (dec_f = dec_x)
  /\ (dec_n = 2) => (dec_f = WireEncode(dec_x))

C10_Witness ==
  /\ dec_n = 2
  /\ dec_x = U32(\h3F80, \h0000)
  /\ dec_f = U32(\h0000, \h3F80)

\* The raw 32-bit value the first decode was applied to.
DecodedRaw == WireEncode(dec_x)

\* C11 (as stated): decoding the raw value 0x80003F00 yields the pattern
\* 0x3F800000, the float 1.0.
C11_Original_LiteralVector ==
  (dec_n = 1 /\ DecodedRaw = U32(\h8000, \h3F00)) => (dec_f = F_1_0)

\* C11 (amended): the decode exchanges the two 16-bit halves, so the raw value
\* that decodes to 0x3F800000 (1.0) is 0x00003F80; the raw value 0x80003F00
\* decodes to 0x3F008000 (about 0.502).
C11_Amended_LiteralVector ==
  /\ (dec_n = 1 /\ DecodedRaw = U32(\h0000, \h3F80)) => (dec_f = F_1_0)
  /\ (dec_n = 1 /\ DecodedRaw = U32(\h8000, \h3F00)) => (dec_f = U32(\h3F00, \h8000))

C11_Witness ==
  /\ dec_n = 1
  /\ DecodedRaw = U32(\h8000, \h3F00)
  /\ dec_f = U32(\h3F00, \h8000)

\* The ten descriptors in table order.
TableOrder == [i \in 1 .. CID_COUNT |-> i - 1]

\* C12: a batch is never cut short by a failing parameter: the parameters are
\* first read in table order, a read of the next parameter is issued only after
\* the previous one was read successfully or had its 3 attempts, and when the
\* invocation returns all ten have been read at least once.
C12_NeverAbortsBatch ==
  /\ []((pc = "reading" \/ ReadReturned) => IsPrefix(att_seq, TableOrder))
  /\ [](ReadReturned => att_seq = TableOrder)
  /\ [][ (Len(att_seq) >= 1 /\ Len(att_seq') = Len(att_seq) + 1)
         => (att_cid \in okSet \/ att_n = max_retries + 1) ]_vars

C12_Witness ==
  /\ pc = "read_done"
  /\ att_seq = TableOrder
  /\ okSet = { 3 }
  /\ result = "ESP_OK"

\* C13: with discovery enabled every MQTT_EVENT_CONNECTED is followed, after the
\* settling delay, by one discovery batch of one config message per sensor:
\* when the handler has returned the batch of this connection is complete,
\* no connection has a second batch, and only the handler (never a step of the
\* publishing task) emits a discovery message.
C13_DiscoveryOncePerConnection ==
  /\ [](disc_batches <= 1)
  /\ [](IsPrefix(disc_log, TableOrder))
  /\ [](hpc = "settle" => (disc_log = << >> /\ disc_batches = 0))
  /\ []((ha_discovery /\ session = "up" /\ hpc = "idle")
          => (disc_batches = 1 /\ disc_log = TableOrder))
  /\ [][ (Len(disc_log') > Len(disc_log)) => (hpc = "disc" /\ pc' = pc) ]_vars

C13_Witness ==
  /\ ha_discovery
  /\ conn_n = 2
  /\ session = "up"
  /\ hpc = "idle"
  /\ disc_batches = 1
  /\ disc_log = TableOrder
  /\ PublishReturned
  /\ Len(pubCalls) = 12

\* C14 (as stated): no telemetry publish call (aggregate or per-field) is made
\* between an MQTT_EVENT_CONNECTED and the end of its discovery batch.
C14_Original_DiscoveryFirst == ~tele_early

\* C15 (as stated): once the client is started the session configuration holds
\* the retained last will "offline" on <prefix>/status, whatever the discovery
\* toggle.
C15_Original_LwtAlways ==
  mqtt_started => (last_will = OfflineWill)

\* C15 (amended): the last will is put into the session configuration by
\* mqtt_init, before the client is started, exactly when discovery is enabled;
\* with discovery disabled no last will is registered.  No later step (publish,
\* event handler) changes it.
C15_Amended_LwtIffDiscovery ==
  /\ [](mqtt_started => (last_will = IF ha_discovery THEN OfflineWill ELSE NoWill))
  /\ [][ (last_will' # last_will) => (main_pc = "mqtt_init") ]_vars

C15_Witness ==
  /\ mqtt_started
  /\ ha_discovery
  /\ last_will = OfflineWill
  /\ last_will.retain = 1
  /\ PublishReturned
  /\ Len(pubCalls) = 12

\* The handler runs for the event `ev` in this step.
Handles(ev) == HandlerTakes(ev) /\ wifi_evq' = Tail(wifi_evq)

\* C16 (as stated): reaching the Failed condition (WIFI_FAIL_BIT raised) never
\* ends the program, the initial wait of wifi_init_and_connect included.
\* (Stated for a retry budget of at least 1.)
C16_Original_FailedNotFatal ==
  ( /\ wifi_maximum_retry >= 1
    /\ ("WIFI_FAIL_BIT" \in s_wifi_event_group \/ "WIFI_FAIL_BIT" \in wifi_bits) )
  => Running

\* C17: s_retry_num stays within 0 .. WIFI_MAXIMUM_RETRY under every
\* interleaving of the handler with the reconnect task; WIFI_FAIL_BIT is raised
\* only by the handler running for a link-down event that finds the counter at
\* or above the maximum; every got-IP event resets the counter to 0.
C17_RetryCounterBounded ==
  /\ [](s_retry_num \in 0 .. wifi_maximum_retry)
  /\ [][ ("WIFI_FAIL_BIT" \notin s_wifi_event_group
            /\ "WIFI_FAIL_BIT" \in s_wifi_event_group')
         => (Handles("STA_DISCONNECTED") /\ s_retry_num >= wifi_maximum_retry) ]_vars
  /\ [][ Handles("GOT_IP") => (s_retry_num' = 0) ]_vars

C17_Witness ==
  /\ wifi_maximum_retry = 2
  /\ s_retry_num = 2
  /\ "WIFI_FAIL_BIT" \in s_wifi_event_group
  /\ wifi_obs.who = "link_down" /\ wifi_obs.failed
  /\ mon_pc # "none"

\* C18: with WIFI_MAXIMUM_RETRY >= 1, the handler running for a link-down event
\* while wifi_connected is true clears wifi_connected and calls
\* esp_wifi_connect() in that same run, and does not raise WIFI_FAIL_BIT.
C18_LinkDownReconnects ==
  /\ [][ (Handles("STA_DISCONNECTED") /\ wifi_connected /\ wifi_maximum_retry >= 1)
         => ( /\ ~wifi_connected'
              /\ whpc' = "incr"
              /\ wifi_obs'.connect
              /\ sta' \in { "connecting", "associated", "up" }
              /\ s_wifi_event_group' = s_wifi_event_group ) ]_vars
  /\ []( (wifi_obs.who = "link_down" /\ wifi_obs.was_connected
            /\ wifi_maximum_retry >= 1)
         => (wifi_obs.connect /\ ~wifi_obs.failed) )

C18_Witness ==
  /\ wifi_maximum_retry = 1
  /\ wifi_obs = Obs("link_down", TRUE, FALSE, TRUE, FALSE)
  /\ whpc = "incr"
  /\ ~wifi_connected
  /\ sta = "connecting"

\* C19: the wait of wifi_init_and_connect ends (it is bounded by the timeout),
\* and the call then returns ESP_OK exactly if WIFI_CONNECTED_BIT was raised,
\* ESP_FAIL exactly if WIFI_FAIL_BIT was raised without it, ESP_ERR_TIMEOUT
\* exactly if neither was; WIFI_CONNECTED_BIT is raised by got-IP events only;
\* wifi_reconnect_task exists only after the ESP_OK return.
C19_ConnectAndWaitResult ==
  /\ []( wifi_waited =>
           /\ (wifi_result = "ESP_OK") <=> ("WIFI_CONNECTED_BIT" \in wifi_bits)
           /\ (wifi_result = "ESP_FAIL") <=>
                ("WIFI_FAIL_BIT" \in wifi_bits /\ "WIFI_CONNECTED_BIT" \notin wifi_bits)
           /\ (wifi_result = "ESP_ERR_TIMEOUT") <=> (wifi_bits = {}) )
  /\ [](mon_pc # "none" => (wifi_waited /\ wifi_result = "ESP_OK"))
  /\ [][ ("WIFI_CONNECTED_BIT" \notin s_wifi_event_group
            /\ "WIFI_CONNECTED_BIT" \in s_wifi_event_group')
         => Handles("GOT_IP") ]_vars
  /\ (main_pc = "wifi_wait") ~> (main_pc # "wifi_wait")

C19_Witness ==
  /\ wifi_waited
  /\ wifi_bits = EventBits
  /\ wifi_result = "ESP_OK"
  /\ mon_pc = "probe"
  /\ main_pc = "wifi_returned"

\* C20 (as stated): a monitor tick calls esp_wifi_connect() only when
\* wifi_connected is false and the probe shows the link down; when the probe
\* shows the link up it issues no connect request.
C20_Original_ReconnectOnlyIfBothDown ==
  (wifi_obs.who = "monitor") =>
    /\ wifi_obs.connect => (~wifi_obs.was_connected /\ ~wifi_obs.probe_ok)
    /\ wifi_obs.probe_ok => ~wifi_obs.connect

\* C20 (amended): a monitor tick probes the link whatever wifi_connected says
\* and calls esp_wifi_connect() exactly when the probe fails or wifi_connected
\* is false; it issues no connect request only when the probe succeeds and
\* wifi_connected is true.
C20_Amended_ReconnectIfEitherDown ==
  (wifi_obs.who = "monitor") =>
    (wifi_obs.connect <=> (~wifi_obs.probe_ok \/ ~wifi_obs.was_connected))

C20_Witness ==
  /\ wifi_obs = Obs("monitor", FALSE, TRUE, TRUE, FALSE)
  /\ mon_pc = "wait"
  /\ sta \in { "associated", "up" }

\* A dotted IPv4 address: four fields of one to three decimal digits, each at
\* most 255, separated by single dots, and nothing else.
DotPositions(s) == { i \in 1 .. Len(s) : s[i] = "." }

FieldOk(f) ==
  /\ Len(f) \in 1 .. 3
  /\ \A i \in 1 .. Len(f) : f[i] \in DigitChars
  /\ ScanDigits(f, 1, 0).val <= 255

IsDottedIPv4(s) ==
  /\ Cardinality(DotPositions(s)) = 3
  /\ \E d1, d2, d3 \in DotPositions(s) :
       /\ d1 < d2 /\ d2 < d3
       /\ FieldOk(SubSeq(s, 1, d1 - 1))
       /\ FieldOk(SubSeq(s, d1 + 1, d2 - 1))
       /\ FieldOk(SubSeq(s, d2 + 1, d3 - 1))
       /\ FieldOk(SubSeq(s, d3 + 1, Len(s)))

\* The monitoring task exists (read_sdm120_data is or will be executed).
Polling == pc # "not_started"

\* C21 (as stated): the poll loop never starts with an invalid target: when the
\* configured device address is not a valid dotted IPv4 address, or the WiFi
\* SSID is missing, the monitoring task is never created.
C21_Original_NoPollOnInvalidTarget ==
  Polling => (IsDottedIPv4(slave_ip_address) /\ ~StrEmpty(wifi_ssid))

\* The configuration errors of a build: no SSID, or a device address that is
\* no dotted IPv4 address.
ConfigurationError == StrEmpty(wifi_ssid) \/ ~IsDottedIPv4(slave_ip_address)

\* C22 (as stated): only configuration errors abort the process.  (Stated for
\* runs that got as far as the startup wait for the WiFi connection; a failure
\* of mqtt_init is not among the causes of an abort.)
C22_Original_OnlyConfigErrorsAbort ==
  (main_pc = "aborted" /\ wifi_waited) => ConfigurationError

\* The link connection state kept by the WiFi code.
LinkState == << wifi_connected, s_retry_num, s_wifi_event_group >>

\* The monitoring task takes a step of read_sdm120_data.
ReaderStep ==
  \/ pc = "loop_top" /\ pc' = "reading"
  \/ pc = "reading" /\ (att_n' # att_n \/ att_cid' # att_cid \/ pc' # pc)

\* wifi_event_handler takes a step.
WifiHandlerRuns == whpc = "incr" \/ (wifi_evq # << >> /\ wifi_evq' = Tail(wifi_evq))

\* C23: no step of read_sdm120_data, its call of check_sdm120_connectivity
\* included, changes wifi_connected, s_retry_num or the event bits: these change
\* only in steps of the WiFi event handler.  The step that makes the
\* connectivity check changes no reading field and no success count, and the
\* reads after it are those of a batch without a check: the next parameter is
\* read next, and the invocation returns with all ten read in table order
\* and every field holding its decoded value or zero.
C23_ReaderLeavesLinkState ==
  /\ [][ ReaderStep => (LinkState' = LinkState) ]_vars
  /\ [][ (LinkState' # LinkState) => WifiHandlerRuns ]_vars
  /\ [][ (pc = "reading" /\ conn_check = "none" /\ conn_check' # "none")
         => ( /\ meter_data' = meter_data
              /\ okSet' = okSet
              /\ success_count' = success_count
              /\ cid' = cid + 1 ) ]_vars
  /\ [][ (conn_check # "none" /\ pc = "reading" /\ ReaderStep /\ cid < CID_COUNT)
         => (att_cid' = att_cid + 1 /\ att_n' = 1) ]_vars
  /\ [](ReadReturned =>
          /\ att_seq = TableOrder
          /\ \A c \in CIDs : meter_data[c] = ExpectedField(c))

C23_Witness ==
  /\ pc = "read_done"
  /\ okSet = CIDs \ { 1, 5, 8 }
  /\ att_seq = TableOrder
  /\ meter_data[9] = MeterValue(9)
  /\ ~wifi_connected
  /\ "WIFI_CONNECTED_BIT" \in s_wifi_event_group

\* The monitoring task takes a step of mqtt_publish_sdm120_data.
PollPublishStep ==
  /\ pc \in { "read_done", "pub_aggregate", "pub_field", "pub_avail" }
  /\ (pc' # pc \/ pubCalls' # pubCalls \/ poll_in_publish' # poll_in_publish)

\* mqtt_event_handler takes a step of its settling delay or of
\* mqtt_publish_ha_discovery.
DiscoveryStep ==
  /\ hpc # "idle"
  /\ (hpc' # hpc \/ disc_i' # disc_i \/ handler_in_publish' # handler_in_publish)

\* The MQTT client task delivers an event to mqtt_event_handler.
EventDelivered ==
  /\ mqtt_started /\ hpc = "idle"
  /\ pc' = pc /\ pubCalls' = pubCalls /\ poll_in_publish' = poll_in_publish

\* C24: mqtt_connected changes only in a step that delivers a broker event to
\* mqtt_event_handler; no step of mqtt_publish_sdm120_data (skipped, accepted or
\* rejected by the broker) and no step of the discovery emission changes it.
C24_SessionFlagFrame ==
  /\ [][ (mqtt_connected' # mqtt_connected) => EventDelivered ]_vars
  /\ [][ PollPublishStep => (mqtt_connected' = mqtt_connected) ]_vars
  /\ [][ DiscoveryStep => (mqtt_connected' = mqtt_connected) ]_vars

C24_Witness ==
  /\ PublishReturned
  /\ mqtt_result = "ESP_FAIL"
  /\ Len(pubCalls) = 1
  /\ mqtt_connected
  /\ session = "up"
  /\ disc_log = TableOrder
  /\ hpc = "idle"

\* C25 (as stated): the monitoring task and mqtt_event_handler are never inside
\* a publish call on the broker session handle at the same time.
C25_Original_NoOverlap == ~(poll_in_publish /\ handler_in_publish)

\* The parameter whose failure led to the connectivity check, and the two
\* before it.
LastThree == { att_cid - 2, att_cid - 1, att_cid }

\* C26 (as stated): the connectivity check is made only when three parameters
\* in a row have failed: a parameter read successfully between two timeouts
\* restarts the count.
C26_Original_ConsecutiveTimeouts ==
  (conn_check # "none") => (LastThree \cap okSet = {})

\* C27: a value read successfully that draws a plausibility warning (voltage
\* outside [0, 500], frequency outside [45, 65], power factor outside
\* [-1.1, 1.1]) is in its field exactly as decoded and counts as a success;
\* the batch is handed to the publisher, whose aggregate and per-field
\* messages carry the value unchanged.  Every such value does draw a warning.
C27_PlausibilityAdvisory ==
  (pc = "reading" \/ ReadReturned) =>
    /\ warned = { c \in okSet : PlausibilityWarning(c, MeterValue(c)) }
    /\ \A c \in warned : meter_data[c] = MeterValue(c)
    /\ success_count = Cardinality(okSet)
    /\ (ReadReturned /\ warned # {}) => (result = "ESP_OK")
    /\ \A i \in DOMAIN pubCalls : \A c \in warned :
         /\ (pubCalls[i].topic = "data") => (pubCalls[i].payload[c] = MeterValue(c))
         /\ (pubCalls[i].topic = FieldTopics[c + 1]) => (pubCalls[i].payload = MeterValue(c))

C27_Witness ==
  /\ PublishReturned
  /\ mqtt_result = "ESP_OK"
  /\ warned = { CID_VOLTAGE, CID_POWER_FACTOR, CID_FREQUENCY }
  /\ meter_data[CID_VOLTAGE] = F_600_0
  /\ meter_data[CID_FREQUENCY] = F_70_0
  /\ meter_data[CID_POWER_FACTOR] = F_neg2_0
  /\ pubCalls[1].payload[CID_VOLTAGE] = F_600_0
  /\ pubCalls[CID_FREQUENCY + 2] = Msg("frequency", F_70_0, 0, 0)
  /\ success_count = CID_COUNT

\* C28: with the monitoring task scheduled and every field-bus read and broker
\* call returning, an invocation of read_sdm120_data starts each parameter at
\* most once and gives it at most 3 attempts, so it returns; every invocation
\* that has returned is followed by a new one, whether the batch was read in
\* full, in part or not at all and whether the publish was skipped, accepted
\* or rejected; the task never leaves its loop.
C28_PollLoopNeverStops ==
  /\ [](Len(att_seq) <= CID_COUNT /\ att_n <= max_retries + 1)
  /\ [][ Polling => Polling' ]_vars
  /\ (pc = "reading") ~> (pc = "read_done")
  /\ (pc = "read_done") ~> (pc = "reading" /\ att_n = 0)
  /\ [](Polling => <>(pc = "reading" /\ att_n = 0))

C28_Witness ==
  /\ pc = "reading" /\ att_n = 0
  /\ result = "none"
  /\ cycle_delays = << >>
  /\ mqtt_connected
  /\ conn_n = 2
  /\ tele_early

\* The topics of the telemetry messages.
TelemetryTopics == { "data" } \cup { FieldTopics[i] : i \in 1 .. Len(FieldTopics) }

C30_RetryDelays ==
  att_n >= 1 =>
    LET n == Len(retry_delays) IN
    /\ \A i \in 1 .. n : retry_delays[i] = 200 + ((i - 1) * 300)
    /\ n >= 1 => retry_delays[1] = 200
    /\ n >= 2 => retry_delays[2] = 500
    /\ \A i \in 1 .. n - 1 : retry_delays[i] < retry_delays[i + 1]
    /\ n <= att_n
    /\ att_cid \in okSet => n = att_n - 1
    /\ (att_cid \notin okSet /\ att_n <= max_retries) => n = att_n
    /\ (att_cid \notin okSet /\ att_n = max_retries + 1) => n = max_retries

\* A parameter that failed twice, waited 200 ms and 500 ms, and succeeded on
\* the third attempt without a further delay.
C30_Witness ==
  /\ att_n = max_retries + 1
  /\ att_cid \in okSet
  /\ retry_delays = << 200, 500 >>

\* A parameter whose whole budget failed: two delays, none after the last
\* attempt.
C30_WitnessExhausted ==
  /\ att_n = max_retries + 1
  /\ att_cid \notin okSet /\ att_cid >= 0
  /\ retry_delays = << 200, 500 >>

\* C31: in read_sdm120_data the timeout counter never exceeds 3: the value
\* tested after a given-up parameter is at most 3, a 3 is reset to 0 at once,
\* so the counter is at most 2 between parameters and when the parameter loop
\* exits, and the end-of-batch high-timeout-rate condition (more timeouts than
\* half of the ten parameters) is never true.
C31_TimeoutCounterBounded ==
  /\ tc_tested <= 3
  /\ tc_tested = 3 => (timeout_count = 0 /\ conn_check # "none")
  /\ timeout_count <= 2
  /\ ~(timeout_count > CID_COUNT \div 2)
  /\ ~high_rate

\* A batch that is not all-failed, whose last parameter brought the counter
\* to 3, and which has returned without the warning.
C31_Witness ==
  /\ pc = "read_done"
  /\ result = "ESP_OK"
  /\ Cardinality(okSet) <= 4
  /\ tc_tested = 3
  /\ timeout_count = 0
  /\ ~high_rate

\* C32 (as stated): every broker publish call of mqtt_publish_sdm120_data is
\* entered while mqtt_connected is true: no telemetry publish call is issued
\* after a disconnected or error event has cleared the flag.
C32_Original_PublishOnlyWhileConnected ==
  poll_in_publish => poll_call_connected

\* C33 (as stated): when the monitor issues its reconnect request and starts
\* to wait for the result, neither WIFI_CONNECTED_BIT nor WIFI_FAIL_BIT is set
\* from an earlier episode (the bits are cleared by the monitor only, so a bit
\* set when the request is made is still set when the wait begins); and when
\* the wait has returned WIFI_CONNECTED_BIT, wifi_connected is true.
C33_Original_NoStaleBits ==
  /\ (mon_pc = "reconnect") => (s_wifi_event_group \cap EventBits = {})
  /\ (mon_pc = "clear" /\ "WIFI_CONNECTED_BIT" \in mon_bits) => wifi_connected

\* The handler has handled every event the driver has posted, and the last
\* one was the got-IP event of the link that is up now: the handler has
\* recorded a link-up and no link-down event has followed.
LinkUpRecorded == sta = "up" /\ wifi_evq = << >> /\ whpc = "idle"

\* C34 (as stated): a link-up recorded by the event handler is never lost:
\* once the handler has set wifi_connected on a got-IP event and no link-down
\* event follows, wifi_connected is true; the reconnect task's write
\* wifi_connected = false does not overwrite it.
C34_Original_LinkUpNeverLost == LinkUpRecorded => wifi_connected

C36_Original_FlagTracksSession ==
  /\ ~mqtt_connected => (conn_n = 0 \/ session = "down")
  /\ session = "up" => mqtt_connected

\* C37: when the broker rejects the aggregate publish call (msg_id -1),
\* mqtt_publish_sdm120_data returns ESP_FAIL, which is not the not-connected
\* outcome ESP_ERR_INVALID_STATE (that one is returned before any call), and
\* the aggregate call is the only call of the invocation: no per-field and no
\* availability message is emitted.  A per-field or availability message is
\* emitted only after an aggregate call that was accepted.
C37_RejectedAggregateEndsInvocation ==
  /\ agg_ret = << -1 >> =>
       /\ mqtt_result = "ESP_FAIL"
       /\ mqtt_result # "ESP_ERR_INVALID_STATE"
       /\ Len(pubCalls) = 1
       /\ pubCalls[1].topic = "data"
       /\ pc \in { "interval", "loop_top" }
  /\ mqtt_result = "ESP_FAIL" => agg_ret = << -1 >>
  /\ mqtt_result = "ESP_ERR_INVALID_STATE" => (agg_ret = << >> /\ pubCalls = << >>)
  /\ \A i \in DOMAIN pubCalls :
       pubCalls[i].topic # "data" =>
         /\ i >= 2
         /\ pubCalls[1].topic = "data"
         /\ Len(agg_ret) = 1
         /\ agg_ret[1] # -1

\* An invocation with availability enabled whose aggregate call was rejected
\* and which has returned to the loop.
C37_Witness ==
  /\ ha_discovery
  /\ agg_ret = << -1 >>
  /\ mqtt_result = "ESP_FAIL"
  /\ pc = "interval"
  /\ Len(pubCalls) = 1

====
